---- MODULE Spec2Model ----
(***************************************************************************)
(* A model of the terminal file browser: the application state and its     *)
(* reducer (src/src/app.rs), the file operations it calls (src/src/ops.rs) *)
(* and the filesystem those operations act on.                             *)
(*                                                                         *)
(* The filesystem is a tree of nodes under the root <<>>; a path is the    *)
(* sequence of its component names.  The process is the unprivileged      *)
(* owner of every node, so the owner permission bits decide access, and    *)
(* nothing but the program changes the filesystem.                         *)
(***************************************************************************)
EXTENDS Integers, Sequences, FiniteSets, TLC

(* ------------------------------ bounds -------------------------------- *)

\* Longest path (in components) the filesystem accepts; longer ones fail
\* the way a path over PATH_MAX does.
MaxDepth == 3

\* Most paths SelectionSet is let to hold.
MaxSel == 2

\* Most reducer actions in a run.
MaxSteps == 6

\* Largest preview_scroll explored.
MaxScroll == 11

\* Most repetitions of a cursor move that are followed.
MaxMoves == 4

(* ------------------------- names and paths ----------------------------- *)

\* The file names in use, each with the bytes of its UTF-8 encoding.
NameBytes ==
    [A |-> <<65>>, b |-> <<98>>, c |-> <<99>>, B |-> <<66>>, Z |-> <<90>>]
    @@ ("b.txt" :> <<98, 46, 116, 120, 116>>)
    @@ ("a.png" :> <<97, 46, 112, 110, 103>>)
    @@ ("c.JPG" :> <<99, 46, 74, 80, 71>>)
    @@ (".png" :> <<46, 112, 110, 103>>)

\* The names the filesystem of a run is built from.
Names == {"A", "b", "c"}

\* The names of the directories handed to the listing on its own.
ListNames == {"A", "B", "Z", "b.txt", "c"}

\* The names of the paths handed to the preview loader on its own.
LoadNames == {"A", "b.txt", "a.png", "c.JPG", ".png"}

\* str::to_lowercase, on ASCII.
ToLowercase(a) ==
    [i \in 1..Len(a) |-> IF a[i] \in 65..90 THEN a[i] + 32 ELSE a[i]]

\* Path::extension of a file name, as bytes: what follows the last dot,
\* <<>> standing for None when there is no dot or only a leading one.
Extension(a) ==
    LET dots == {i \in 1..Len(a) : a[i] = 46}
    IN IF dots = {} THEN <<>>
       ELSE LET d == CHOOSE i \in dots : \A j \in dots : j <= i
            IN IF d = 1 THEN <<>> ELSE SubSeq(a, d + 1, Len(a))

\* "png" | "jpg" | "jpeg" | "gif" | "bmp" | "webp" | "ico" | "tiff".
ImageExtensions ==
    {<<112, 110, 103>>, <<106, 112, 103>>, <<106, 112, 101, 103>>,
     <<103, 105, 102>>, <<98, 109, 112>>, <<119, 101, 98, 112>>,
     <<105, 99, 111>>, <<116, 105, 102, 102>>}

RECURSIVE PathsOfLen(_)
PathsOfLen(n) ==
    IF n = 0 THEN {<<>>}
    ELSE {Append(p, x) : p \in PathsOfLen(n - 1), x \in Names}

Paths == UNION {PathsOfLen(n) : n \in 0..MaxDepth}

Root == <<>>

\* Path::parent: a path without its last component.
Parent(p) == SubSeq(p, 1, Len(p) - 1)

\* Path::join with one component.
Join(p, x) == Append(p, x)

\* Path::file_name.
FileName(p) == p[Len(p)]

\* q is p or lies below p.
IsPrefix(p, q) == Len(p) <= Len(q) /\ SubSeq(q, 1, Len(p)) = p

(* ---------------------------- mode bits -------------------------------- *)

S_IRUSR == 256
S_IWUSR == 128
S_IXUSR == 64
S_IFDIR == 16384
S_IFREG == 32768
\* chmod(2) keeps the twelve permission bits of the word it is given:
\* st_mode % PermModulus.
PermModulus == 4096

\* Whether bit b (a power of two) is set in m.
HasBit(m, b) == (m \div b) % 2 = 1

\* Bit b of mode word m set, whatever it was.
OrBit(m, b) == IF HasBit(m, b) THEN m ELSE m + b

\* The bits a mode word read from the filesystem has: file type and
\* permissions.
ModeBits == 16

\* m ^ b for a single bit b.
XorBit(m, b) == IF HasBit(m, b) THEN m - b ELSE m + b

\* Mode of a directory create_dir_all makes, under the usual umask 022.
DirCreateMode == 493

(* --------------------------- filesystem -------------------------------- *)

NoNode == [kind |-> "none", mode |-> 0, data |-> "none"]

DirNode(m) == [kind |-> "dir", mode |-> m, data |-> "none"]

FileNode(m, d) == [kind |-> "file", mode |-> m, data |-> d]

Node(f, p) == IF p \in Paths THEN f[p] ELSE NoNode

\* Every proper ancestor of p is a directory the process may search.
Traversable(f, p) ==
    \A i \in 0..(Len(p) - 1) :
        LET a == SubSeq(p, 1, i) IN
            Node(f, a).kind = "dir" /\ HasBit(Node(f, a).mode, S_IXUSR)

\* stat(2) succeeds on p.
StatOk(f, p) == Node(f, p).kind # "none" /\ Traversable(f, p)

\* Path::exists and Path::is_dir: a failing stat reads as "no".
PathExists(f, p) == StatOk(f, p)

PathIsDir(f, p) == StatOk(f, p) /\ Node(f, p).kind = "dir"

\* read_dir(d) can open the directory d.
CanOpenDir(f, d) == PathIsDir(f, d) /\ HasBit(Node(f, d).mode, S_IRUSR)

\* The names present in directory p.
ChildNames(f, p) == {x \in Names : Node(f, Join(p, x)).kind # "none"}

\* Metadata::permissions().mode(): the type bits and the permission bits.
StMode(f, p) ==
    (IF Node(f, p).kind = "dir" THEN S_IFDIR ELSE S_IFREG) + Node(f, p).mode

(* ------------------------- directory reader ---------------------------- *)

\* The bytes of a precede those of b (String::cmp is bytewise).
RECURSIVE BytesLess(_, _)
BytesLess(a, b) ==
    IF b = <<>> THEN FALSE
    ELSE IF a = <<>> THEN TRUE
    ELSE IF a[1] # b[1] THEN a[1] < b[1]
    ELSE BytesLess(Tail(a), Tail(b))

\* A comparison of names that ignores case.
NameLessFolded(x, y) ==
    BytesLess(ToLowercase(NameBytes[x]), ToLowercase(NameBytes[y]))

NameLess(x, y) == BytesLess(NameBytes[x], NameBytes[y])

\* The ten characters read_entries renders for a mode.
PermString(isdir, mode) ==
    << IF isdir THEN "d" ELSE "-",
       IF HasBit(mode, 256) THEN "r" ELSE "-",
       IF HasBit(mode, 128) THEN "w" ELSE "-",
       IF HasBit(mode, 64) THEN "x" ELSE "-",
       IF HasBit(mode, 32) THEN "r" ELSE "-",
       IF HasBit(mode, 16) THEN "w" ELSE "-",
       IF HasBit(mode, 8) THEN "x" ELSE "-",
       IF HasBit(mode, 4) THEN "r" ELSE "-",
       IF HasBit(mode, 2) THEN "w" ELSE "-",
       IF HasBit(mode, 1) THEN "x" ELSE "-" >>

\* The FsEntry built for child x of directory p.
FsEntry(f, p, x) ==
    LET q == Join(p, x) IN
        [path |-> q,
         name |-> x,
         is_dir |-> PathIsDir(f, q),
         permissions |-> PermString(PathIsDir(f, q), StMode(f, q))]

\* The comparator of entries.sort_by: directories first, then by name.
EntryLess(a, b) ==
    IF a.is_dir # b.is_dir THEN a.is_dir ELSE NameLess(a.name, b.name)

\* The entries of S in the order sort_by leaves them.
RECURSIVE SortEntries(_)
SortEntries(S) ==
    IF S = {} THEN <<>>
    ELSE LET m == CHOOSE a \in S : \A b \in S \ {a} : EntryLess(a, b)
         IN <<m>> \o SortEntries(S \ {m})

\* read_entries(p): "err" when the directory cannot be opened, "panic" when
\* an entry's metadata cannot be read (the unwrap), else "ok" and the list.
ReadEntries(f, p) ==
    IF ~(PathIsDir(f, p) /\ HasBit(Node(f, p).mode, S_IRUSR))
    THEN [res |-> "err", list |-> <<>>]
    ELSE IF ChildNames(f, p) # {} /\ ~HasBit(Node(f, p).mode, S_IXUSR)
    THEN [res |-> "panic", list |-> <<>>]
    ELSE [res |-> "ok",
          list |-> SortEntries({FsEntry(f, p, x) : x \in ChildNames(f, p)})]

(* -------------------------- file operations ---------------------------- *)

\* Why the kernel refuses to walk to p's parent: "ok" when it does not.
WalkErr(f, p) ==
    IF p \notin Paths THEN "toolong"
    ELSE IF Traversable(f, p) THEN "ok"
    ELSE LET i == CHOOSE i \in 0..(Len(p) - 1) :
                    /\ ~(Node(f, SubSeq(p, 1, i)).kind = "dir"
                         /\ HasBit(Node(f, SubSeq(p, 1, i)).mode, S_IXUSR))
                    /\ \A j \in 0..(i - 1) :
                          Node(f, SubSeq(p, 1, j)).kind = "dir"
                          /\ HasBit(Node(f, SubSeq(p, 1, j)).mode, S_IXUSR)
             k == Node(f, SubSeq(p, 1, i)).kind
         IN IF k = "none" THEN "notfound"
            ELSE IF k = "file" THEN "notdir" ELSE "access"

\* mkdir(2) of p: "ok" or the error.
MkdirErr(f, p) ==
    IF WalkErr(f, p) # "ok" THEN WalkErr(f, p)
    ELSE IF Node(f, p).kind # "none" THEN "exists"
    ELSE IF ~HasBit(Node(f, Parent(p)).mode, S_IWUSR) THEN "access"
    ELSE "ok"

\* fs::create_dir_all(p): the missing ancestors first, then p; what was
\* made before a failure stays.
RECURSIVE CreateDirAll(_, _)
CreateDirAll(f, p) ==
    LET made(g) == [g EXCEPT ![p] = DirNode(DirCreateMode)]
        e == MkdirErr(f, p)
    IN IF e = "ok" THEN [ok |-> TRUE, fs |-> made(f)]
       ELSE IF e # "notfound" THEN [ok |-> PathIsDir(f, p), fs |-> f]
       ELSE LET r == CreateDirAll(f, Parent(p))
            IN IF ~r.ok THEN r
               ELSE IF MkdirErr(r.fs, p) = "ok"
               THEN [ok |-> TRUE, fs |-> made(r.fs)]
               ELSE [ok |-> PathIsDir(r.fs, p), fs |-> r.fs]

\* fs::copy(src, dst) of a regular file: open src to read, open dst to
\* write (created or truncated), give dst the mode of src, copy the bytes
\* that src then holds.  When src and dst are the same file the truncation
\* empties it before anything is read.
FileCopy(f, src, dst) ==
    IF ~(StatOk(f, src) /\ Node(f, src).kind = "file"
         /\ HasBit(Node(f, src).mode, S_IRUSR))
    THEN [ok |-> FALSE, fs |-> f]
    ELSE IF WalkErr(f, dst) # "ok" \/ Node(f, dst).kind = "dir"
    THEN [ok |-> FALSE, fs |-> f]
    ELSE IF Node(f, dst).kind = "file" /\ ~HasBit(Node(f, dst).mode, S_IWUSR)
    THEN [ok |-> FALSE, fs |-> f]
    ELSE IF Node(f, dst).kind = "none"
            /\ ~HasBit(Node(f, Parent(dst)).mode, S_IWUSR)
    THEN [ok |-> FALSE, fs |-> f]
    ELSE LET opened == [f EXCEPT ![dst] =
                            FileNode(Node(f, src).mode, "empty")]
         IN [ok |-> TRUE,
             fs |-> [opened EXCEPT ![dst].data = Node(opened, src).data]]

\* ops::copy_recursive(src, dst): the outcomes over every order in which
\* read_dir may hand out the children of a directory.
RECURSIVE CopyRecursive(_, _, _), CopyChildren(_, _, _, _)
CopyRecursive(f, src, dst) ==
    IF ~PathExists(f, src) THEN {[ok |-> TRUE, fs |-> f]}
    ELSE IF PathIsDir(f, src)
    THEN LET r == IF ~PathExists(f, dst) THEN CreateDirAll(f, dst)
                  ELSE [ok |-> TRUE, fs |-> f]
         IN IF ~r.ok \/ ~HasBit(Node(r.fs, src).mode, S_IRUSR)
            THEN {[ok |-> FALSE, fs |-> r.fs]}
            ELSE CopyChildren(r.fs, src, dst, ChildNames(r.fs, src))
    ELSE LET r == CreateDirAll(f, Parent(dst))
         IN IF ~r.ok THEN {[ok |-> FALSE, fs |-> r.fs]}
            ELSE {FileCopy(r.fs, src, dst)}

CopyChildren(f, src, dst, rest) ==
    IF rest = {} THEN {[ok |-> TRUE, fs |-> f]}
    ELSE UNION {
           UNION { IF o.ok THEN CopyChildren(o.fs, src, dst, rest \ {x})
                   ELSE {[ok |-> FALSE, fs |-> o.fs]}
                   : o \in CopyRecursive(f, Join(src, x), Join(dst, x)) }
           : x \in rest }

\* fs::remove_file(p).
RemoveFile(f, p) ==
    IF StatOk(f, p) /\ Node(f, p).kind = "file"
       /\ HasBit(Node(f, Parent(p)).mode, S_IWUSR)
    THEN [ok |-> TRUE, fs |-> [f EXCEPT ![p] = NoNode]]
    ELSE [ok |-> FALSE, fs |-> f]

\* fs::remove_dir_all(p): open p to read, remove the children in the order
\* read_dir hands them out, stop at the first failure, then remove p.
RECURSIVE RemoveDirAll(_, _), RemoveChildren(_, _, _)
RemoveDirAll(f, p) ==
    IF ~(PathIsDir(f, p) /\ HasBit(Node(f, p).mode, S_IRUSR))
    THEN {[ok |-> FALSE, fs |-> f]}
    ELSE { IF o.ok /\ p # Root /\ HasBit(Node(o.fs, Parent(p)).mode, S_IWUSR)
           THEN [ok |-> TRUE, fs |-> [o.fs EXCEPT ![p] = NoNode]]
           ELSE [ok |-> FALSE, fs |-> o.fs]
           : o \in RemoveChildren(f, p, ChildNames(f, p)) }

RemoveChildren(f, p, rest) ==
    IF rest = {} THEN {[ok |-> TRUE, fs |-> f]}
    ELSE UNION {
           UNION { IF o.ok THEN RemoveChildren(o.fs, p, rest \ {x})
                   ELSE {[ok |-> FALSE, fs |-> o.fs]}
                   : o \in IF Node(f, Join(p, x)).kind = "dir"
                           THEN RemoveDirAll(f, Join(p, x))
                           ELSE {RemoveFile(f, Join(p, x))} }
           : x \in rest }

\* ops::delete_path(p).
DeletePath(f, p) ==
    IF PathIsDir(f, p) THEN RemoveDirAll(f, p) ELSE {RemoveFile(f, p)}

\* ops::set_permissions(p, mode).
SetPermissions(f, p, mode) ==
    IF StatOk(f, p)
    THEN [ok |-> TRUE, fs |-> [f EXCEPT ![p].mode = mode % PermModulus]]
    ELSE [ok |-> FALSE, fs |-> f]

(* -------------------------- preview loader ----------------------------- *)

\* The bytes a file of each kind of data holds.
DataBytes ==
    [text |-> <<104, 105, 10>>,
     bin |-> <<255, 254>>,
     empty |-> <<>>,
     none |-> <<>>]

\* The first bytes of a PNG file; the samples carry width and height in
\* the two bytes after them.
PngSignature == <<137, 80, 78, 71>>

\* image::ImageReader with_guessed_format().into_dimensions() succeeds.
DecodesAsImage(bytes) ==
    Len(bytes) >= Len(PngSignature) + 2
    /\ SubSeq(bytes, 1, Len(PngSignature)) = PngSignature

ImageWidth(bytes) == bytes[Len(PngSignature) + 1]

ImageHeight(bytes) == bytes[Len(PngSignature) + 2]

\* String::from_utf8 accepts the bytes: of the samples, those that are
\* ASCII throughout.
ValidUtf8(bytes) == \A i \in 1..Len(bytes) : bytes[i] < 128

\* format!("{}|-- {}\n", indent, name) at the given depth.
TreeLine(depth, x) ==
    [i \in 1..(2 * (depth - 1)) |-> 32] \o <<124, 45, 45, 32>>
    \o NameBytes[x] \o <<10>>

\* The lines WalkDir gives for directory d, itself at depth - 1, down to
\* depth 3: a line for each child of a directory that can be opened, the
\* children of a child directory after its line.  The children are taken
\* in the order of their names.
RECURSIVE Walk(_, _, _), WalkChildren(_, _, _, _)
Walk(f, d, depth) ==
    IF depth > 3 \/ ~CanOpenDir(f, d) THEN <<>>
    ELSE WalkChildren(f, d, depth, ChildNames(f, d))

WalkChildren(f, d, depth, rest) ==
    IF rest = {} THEN <<>>
    ELSE LET x == CHOOSE y \in rest : \A z \in rest \ {y} : NameLess(y, z)
         IN TreeLine(depth, x)
            \o (IF Node(f, Join(d, x)).kind = "dir"
                THEN Walk(f, Join(d, x), depth + 1) ELSE <<>>)
            \o WalkChildren(f, d, depth, rest \ {x})

\* What the loader finds at a path of the filesystem: the file name, what
\* stat says, whether the file can be opened to read, its bytes, and for a
\* directory the text of its tree.
Probe(f, p) ==
    [name |-> IF p = Root THEN "" ELSE FileName(p),
     stat |-> IF StatOk(f, p) THEN Node(f, p).kind ELSE "none",
     readable |-> StatOk(f, p) /\ HasBit(Node(f, p).mode, S_IRUSR),
     bytes |-> IF StatOk(f, p) /\ Node(f, p).kind = "file"
               THEN DataBytes[Node(f, p).data] ELSE <<>>,
     tree |-> Walk(f, p, 1)]

\* A load that looks at the extension before it tries to decode an image.
ClassifyExtensionFirst(x) ==
    LET ext == IF x.name = "" THEN <<>>
               ELSE ToLowercase(Extension(NameBytes[x.name]))
    IN IF x.stat = "dir"
       THEN [ok |-> TRUE,
             content |-> [type |-> "Text", title |-> x.name,
                          content |-> x.tree]]
       ELSE IF ext \in ImageExtensions
       THEN [ok |-> TRUE,
             content |-> [type |-> "Image", title |-> x.name,
                          width |-> 0, height |-> 0]]
       ELSE IF x.readable /\ DecodesAsImage(x.bytes)
       THEN [ok |-> TRUE,
             content |-> [type |-> "Image", title |-> x.name,
                          width |-> ImageWidth(x.bytes),
                          height |-> ImageHeight(x.bytes)]]
       ELSE IF x.readable /\ ValidUtf8(x.bytes)
       THEN [ok |-> TRUE,
             content |-> [type |-> "Text", title |-> x.name,
                          content |-> x.bytes]]
       ELSE IF x.stat # "none"
       THEN [ok |-> TRUE,
             content |-> [type |-> "Binary", title |-> x.name,
                          size |-> Len(x.bytes)]]
       ELSE [ok |-> FALSE, error |-> "No such file or directory"]

\* A load that takes only non-empty valid text for text.
ClassifyEmptyIsBinary(x) ==
    LET ext == IF x.name = "" THEN <<>>
               ELSE ToLowercase(Extension(NameBytes[x.name]))
    IN IF x.stat = "dir"
       THEN [ok |-> TRUE,
             content |-> [type |-> "Text", title |-> x.name,
                          content |-> x.tree]]
       ELSE IF x.readable /\ DecodesAsImage(x.bytes)
       THEN [ok |-> TRUE,
             content |-> [type |-> "Image", title |-> x.name,
                          width |-> ImageWidth(x.bytes),
                          height |-> ImageHeight(x.bytes)]]
       ELSE IF ext \in ImageExtensions
       THEN [ok |-> TRUE,
             content |-> [type |-> "Image", title |-> x.name,
                          width |-> 0, height |-> 0]]
       ELSE IF x.readable /\ ValidUtf8(x.bytes) /\ x.bytes # <<>>
       THEN [ok |-> TRUE,
             content |-> [type |-> "Text", title |-> x.name,
                          content |-> x.bytes]]
       ELSE IF x.stat # "none"
       THEN [ok |-> TRUE,
             content |-> [type |-> "Binary", title |-> x.name,
                          size |-> Len(x.bytes)]]
       ELSE [ok |-> FALSE, error |-> "No such file or directory"]

\* DefaultPreviewLoader::load on what is found at the path: a directory is
\* a tree listing; else what decodes as an image is an image; else an
\* image extension is an image of unknown size; else what read_to_string
\* accepts is text; else, when metadata can be read, binary; else the
\* error of metadata.
Classify(x) ==
    LET ext == IF x.name = "" THEN <<>>
               ELSE ToLowercase(Extension(NameBytes[x.name]))
    IN IF x.stat = "dir"
       THEN [ok |-> TRUE,
             content |-> [type |-> "Text", title |-> x.name,
                          content |-> x.tree]]
       ELSE IF x.readable /\ DecodesAsImage(x.bytes)
       THEN [ok |-> TRUE,
             content |-> [type |-> "Image", title |-> x.name,
                          width |-> ImageWidth(x.bytes),
                          height |-> ImageHeight(x.bytes)]]
       ELSE IF ext \in ImageExtensions
       THEN [ok |-> TRUE,
             content |-> [type |-> "Image", title |-> x.name,
                          width |-> 0, height |-> 0]]
       ELSE IF x.readable /\ ValidUtf8(x.bytes)
       THEN [ok |-> TRUE,
             content |-> [type |-> "Text", title |-> x.name,
                          content |-> x.bytes]]
       ELSE IF x.stat # "none"
       THEN [ok |-> TRUE,
             content |-> [type |-> "Binary", title |-> x.name,
                          size |-> Len(x.bytes)]]
       ELSE [ok |-> FALSE, error |-> "No such file or directory"]

\* loader.load(path) on the filesystem.
Load(f, p) == Classify(Probe(f, p))

(* ------------------------------ state ---------------------------------- *)

VARIABLES
    fs,             \* the filesystem: Paths -> node
    alive,          \* FALSE once the process has panicked
    cwd,            \* AppState.cwd
    entries,        \* AppState.entries
    cursor,         \* AppState.cursor
    selected,       \* AppState.selected
    preview,        \* AppState.preview
    clipboard,      \* AppState.clipboard
    active_focus,   \* AppState.active_focus
    preview_scroll, \* AppState.preview_scroll
    popup,          \* AppState.popup
    steps,          \* reducer actions taken so far
    quit,           \* TRUE once run_app has returned
    input,          \* the argument of a function applied on its own
    paste           \* a Paste followed call by call: phase, items, stack

\* The program and its filesystem.
state == <<fs, alive, cwd, entries, cursor, selected, preview, clipboard,
           active_focus, preview_scroll, popup>>

vars == <<state, steps, quit, input, paste>>

\* The filesystem the program is started on: a file and two directories
\* under the root, one of them read-only; /b/c has the sticky bit.
InitFs ==
    [p \in Paths |->
        CASE p = <<>> -> DirNode(493)
          [] p = <<"A">> -> FileNode(420, "text")
          [] p = <<"b">> -> DirNode(493)
          [] p = <<"b", "A">> -> FileNode(420, "bin")
          [] p = <<"b", "c">> -> DirNode(1005)
          [] p = <<"c">> -> DirNode(365)
          [] p = <<"c", "A">> -> FileNode(420, "empty")
          [] OTHER -> NoNode]

PreviewNone == [tag |-> "None"]

\* No function is being applied on its own: the program is running.
NoInput == [tag |-> "None"]

\* No Paste is being followed call by call.
NoPaste == [phase |-> "idle", items |-> <<>>, stack |-> <<>>]

PopupNone == [tag |-> "None"]

ClipboardNone == [tag |-> "None"]

\* main: the state built before run_app, in any directory of the filesystem.
Init ==
    /\ fs = InitFs
    /\ alive = TRUE
    /\ cwd \in {p \in Paths : ReadEntries(InitFs, p).res = "ok"}
    /\ entries = ReadEntries(InitFs, cwd).list
    /\ cursor = 0
    /\ selected = {}
    /\ preview = PreviewNone
    /\ clipboard = ClipboardNone
    /\ active_focus = "FileList"
    /\ preview_scroll = 0
    /\ popup = PopupNone
    /\ steps = 0
    /\ quit = FALSE
    /\ input = NoInput
    /\ paste = NoPaste

\* entries.get(cursor): whether there is an entry, and the entry.
HasEntry == cursor < Len(entries)

EntryAtCursor == entries[cursor + 1]

(* ----------------------------- reducer --------------------------------- *)

\* Every order in which the elements of S can be collected into a Vec.
RECURSIVE Orders(_)
Orders(S) ==
    IF S = {} THEN {<<>>}
    ELSE UNION {{<<x>> \o t : t \in Orders(S \ {x})} : x \in S}

\* The set of the elements of a sequence.
Range(s) == {s[i] : i \in 1..Len(s)}

\* What read_entries leaves of a reduce step that reloads the listing of
\* directory d on filesystem f: "ok" takes the new list, "err" keeps the
\* old one, "panic" ends the process.
Reloaded(f, d) == ReadEntries(f, d)

\* The cursor one up, in a list.
MovedUp(c) == IF c > 0 THEN c - 1 ELSE c

CursorMoveUp ==
    /\ alive
    /\ cursor' = IF active_focus = "FileList" THEN MovedUp(cursor) ELSE cursor
    /\ UNCHANGED <<fs, alive, cwd, entries, selected, preview, clipboard,
                   active_focus, preview_scroll, popup>>

\* A step down that stops one entry too late.
MovedDownPastEnd(c, n) == IF c < n THEN c + 1 ELSE c

\* The cursor one down, in a list of n entries.
MovedDown(c, n) == IF c + 1 < n THEN c + 1 ELSE c

CursorMoveDown ==
    /\ alive
    /\ cursor' = IF active_focus = "FileList"
                 THEN MovedDown(cursor, Len(entries)) ELSE cursor
    /\ UNCHANGED <<fs, alive, cwd, entries, selected, preview, clipboard,
                   active_focus, preview_scroll, popup>>

\* A directory change that drops the preview even when the target cannot
\* be read.
ChangeDirDropsPreview(new_cwd) ==
    LET r == ReadEntries(fs, new_cwd) IN
        /\ alive' = (r.res # "panic")
        /\ IF r.res = "ok"
           THEN /\ cwd' = new_cwd
                /\ entries' = r.list
                /\ cursor' = 0
                /\ preview_scroll' = 0
           ELSE UNCHANGED <<cwd, entries, cursor, preview_scroll>>
        /\ preview' = PreviewNone
        /\ UNCHANGED <<fs, selected, clipboard, active_focus, popup>>

\* A directory change that keeps the scroll offset of the preview.
ChangeDirKeepsScroll(new_cwd) ==
    LET r == ReadEntries(fs, new_cwd) IN
        /\ alive' = (r.res # "panic")
        /\ IF r.res = "ok"
           THEN /\ cwd' = new_cwd
                /\ entries' = r.list
                /\ cursor' = 0
                /\ preview' = PreviewNone
           ELSE UNCHANGED <<cwd, entries, cursor, preview>>
        /\ UNCHANGED <<fs, selected, clipboard, active_focus, popup,
                       preview_scroll>>

\* A directory change that starts the new directory with no selection.
ChangeDirClearsSelection(new_cwd) ==
    LET r == ReadEntries(fs, new_cwd) IN
        /\ alive' = (r.res # "panic")
        /\ IF r.res = "ok"
           THEN /\ cwd' = new_cwd
                /\ entries' = r.list
                /\ cursor' = 0
                /\ preview' = PreviewNone
                /\ preview_scroll' = 0
                /\ selected' = {}
           ELSE UNCHANGED <<cwd, entries, cursor, preview, preview_scroll,
                            selected>>
        /\ UNCHANGED <<fs, clipboard, active_focus, popup>>

\* The directory change shared by EnterDir and GoBack: read the target and,
\* if that succeeds, replace the navigation state.
ChangeDir(new_cwd) ==
    LET r == ReadEntries(fs, new_cwd) IN
        /\ alive' = (r.res # "panic")
        /\ IF r.res = "ok"
           THEN /\ cwd' = new_cwd
                /\ entries' = r.list
                /\ cursor' = 0
                /\ preview' = PreviewNone
                /\ preview_scroll' = 0
           ELSE UNCHANGED <<cwd, entries, cursor, preview, preview_scroll>>
        /\ UNCHANGED <<fs, selected, clipboard, active_focus, popup>>

\* The directory EnterDir asks for: the entry at the cursor if it is a
\* directory, else the current one.
EnterTarget ==
    IF HasEntry /\ EntryAtCursor.is_dir THEN EntryAtCursor.path ELSE cwd

EnterDir ==
    /\ alive
    /\ IF EnterTarget # cwd THEN ChangeDir(EnterTarget) ELSE UNCHANGED state

GoBack ==
    /\ alive
    /\ IF cwd # Root THEN ChangeDir(Parent(cwd)) ELSE UNCHANGED state

RequestPreview(path) ==
    /\ alive
    /\ preview' = [tag |-> "Loading", path |-> path]
    /\ preview_scroll' = 0
    /\ UNCHANGED <<fs, alive, cwd, entries, cursor, selected, clipboard,
                   active_focus, popup>>

\* HashSet::insert, then remove if the path was already there.
\* A toggle that only ever inserts.
ToggledInsertOnly(sel, path) == sel \cup {path}

Toggled(sel, path) ==
    IF path \in sel THEN sel \ {path} ELSE sel \cup {path}

ToggleSelect ==
    /\ alive
    /\ selected' = IF HasEntry THEN Toggled(selected, EntryAtCursor.path)
                   ELSE selected
    /\ Cardinality(selected') <= MaxSel
    /\ UNCHANGED <<fs, alive, cwd, entries, cursor, preview, clipboard,
                   active_focus, preview_scroll, popup>>

\* A choice of paths that prefers the entry under the cursor to the
\* selection.
TargetPathsCursorFirst(sel) ==
    IF HasEntry THEN {<<EntryAtCursor.path>>}
    ELSE IF sel = {} THEN {<<>>} ELSE Orders(sel)

\* The Vec of paths Yank and Delete work on, given the selection: in any
\* order a HashSet may iterate.
TargetPaths(sel) ==
    IF sel = {}
    THEN IF HasEntry THEN {<<EntryAtCursor.path>>} ELSE {<<>>}
    ELSE Orders(sel)

\* A Yank without the test for an empty Vec.
YankedUnguarded(sel, clip) ==
    { [selected |-> {},
       clipboard |-> [tag |-> "Some", op |-> "Copy", paths |-> paths]]
      : paths \in TargetPaths(sel) }

\* What Yank may leave of a selection and a clipboard.
Yanked(sel, clip) ==
    { IF paths # <<>>
      THEN [selected |-> {},
            clipboard |-> [tag |-> "Some", op |-> "Copy", paths |-> paths]]
      ELSE [selected |-> sel, clipboard |-> clip]
      : paths \in TargetPaths(sel) }

Yank ==
    /\ alive
    /\ \E y \in Yanked(selected, clipboard) :
          /\ clipboard' = y.clipboard
          /\ selected' = y.selected
    /\ UNCHANGED <<fs, alive, cwd, entries, cursor, preview, active_focus,
                   preview_scroll, popup>>

\* The loop of Paste: each path of the clipboard copied in turn into
\* directory d, whatever the outcome of the one before.  An outcome is the
\* filesystem left and, per path, whether copy_recursive returned Ok.
RECURSIVE PasteLoop(_, _, _)
PasteLoop(f, d, srcs) ==
    IF srcs = <<>> THEN {[fs |-> f, oks |-> <<>>]}
    ELSE UNION { { [fs |-> t.fs, oks |-> <<o.ok>> \o t.oks]
                   : t \in PasteLoop(o.fs, d, Tail(srcs)) }
                 : o \in CopyRecursive(f, Head(srcs),
                                       Join(d, FileName(Head(srcs)))) }

\* A Paste that uses the clipboard up.
PasteConsumesClipboard ==
    /\ alive
    /\ IF clipboard.tag = "Some"
       THEN \E o \in PasteLoop(fs, cwd, clipboard.paths) :
               LET r == Reloaded(o.fs, cwd) IN
                   /\ fs' = o.fs
                   /\ alive' = (r.res # "panic")
                   /\ entries' = IF r.res = "ok" THEN r.list ELSE entries
       ELSE UNCHANGED <<fs, alive, entries>>
    /\ clipboard' = ClipboardNone
    /\ UNCHANGED <<cwd, cursor, selected, preview, active_focus,
                   preview_scroll, popup>>

\* A Paste that also empties the selection, as Yank does.
PasteClearsSelection ==
    /\ alive
    /\ IF clipboard.tag = "Some"
       THEN \E o \in PasteLoop(fs, cwd, clipboard.paths) :
               LET r == Reloaded(o.fs, cwd) IN
                   /\ fs' = o.fs
                   /\ alive' = (r.res # "panic")
                   /\ entries' = IF r.res = "ok" THEN r.list ELSE entries
                   /\ selected' = {}
       ELSE UNCHANGED <<fs, alive, entries, selected>>
    /\ UNCHANGED <<cwd, cursor, preview, clipboard, active_focus,
                   preview_scroll, popup>>

Paste ==
    /\ alive
    /\ IF clipboard.tag = "Some"
       THEN \E o \in PasteLoop(fs, cwd, clipboard.paths) :
               LET r == Reloaded(o.fs, cwd) IN
                   /\ fs' = o.fs
                   /\ alive' = (r.res # "panic")
                   /\ entries' = IF r.res = "ok" THEN r.list ELSE entries
       ELSE UNCHANGED <<fs, alive, entries>>
    /\ UNCHANGED <<cwd, cursor, selected, preview, clipboard, active_focus,
                   preview_scroll, popup>>

\* A loop of Delete that gives up at the first path that fails.
RECURSIVE DeleteLoopStopAtError(_, _)
DeleteLoopStopAtError(f, paths) ==
    IF paths = <<>> THEN {[fs |-> f, oks |-> <<>>]}
    ELSE UNION { IF o.ok
                 THEN { [fs |-> t.fs, oks |-> <<TRUE>> \o t.oks]
                        : t \in DeleteLoopStopAtError(o.fs, Tail(paths)) }
                 ELSE { [fs |-> o.fs,
                         oks |-> [i \in 1..Len(paths) |-> FALSE]] }
                 : o \in DeletePath(f, Head(paths)) }

\* The loop of Delete: each path deleted in turn, failures ignored.  An
\* outcome is the filesystem left and, per path, whether delete_path
\* returned Ok.
RECURSIVE DeleteLoop(_, _)
DeleteLoop(f, paths) ==
    IF paths = <<>> THEN {[fs |-> f, oks |-> <<>>]}
    ELSE UNION { { [fs |-> t.fs, oks |-> <<o.ok>> \o t.oks]
                   : t \in DeleteLoop(o.fs, Tail(paths)) }
                 : o \in DeletePath(f, Head(paths)) }

\* The cursor after Delete reloaded a list of n entries.
DeleteCursor(c, n) == IF c >= n /\ n # 0 THEN n - 1 ELSE c

Delete ==
    /\ alive
    /\ \E paths \in TargetPaths(selected) : \E o \in DeleteLoop(fs, paths) :
          LET r == Reloaded(o.fs, cwd) IN
              /\ fs' = o.fs
              /\ selected' = {}
              /\ alive' = (r.res # "panic")
              /\ entries' = IF r.res = "ok" THEN r.list ELSE entries
              /\ cursor' = IF r.res = "ok"
                           THEN DeleteCursor(cursor, Len(r.list))
                           ELSE cursor
    /\ UNCHANGED <<cwd, preview, clipboard, active_focus, preview_scroll,
                   popup>>

\* A Chmod that opens the editor, on mode 0, for an entry whose metadata
\* cannot be read.
ChmodOpensAnyway ==
    /\ alive
    /\ IF HasEntry
       THEN popup' = [tag |-> "Chmod",
                      path |-> EntryAtCursor.path,
                      mode |-> IF StatOk(fs, EntryAtCursor.path)
                               THEN StMode(fs, EntryAtCursor.path) ELSE 0,
                      cursor_idx |-> 0]
       ELSE popup' = popup
    /\ UNCHANGED <<fs, alive, cwd, entries, cursor, selected, preview,
                   clipboard, active_focus, preview_scroll>>

Chmod ==
    /\ alive
    /\ IF HasEntry /\ StatOk(fs, EntryAtCursor.path)
       THEN popup' = [tag |-> "Chmod",
                      path |-> EntryAtCursor.path,
                      mode |-> StMode(fs, EntryAtCursor.path),
                      cursor_idx |-> 0]
       ELSE popup' = popup
    /\ UNCHANGED <<fs, alive, cwd, entries, cursor, selected, preview,
                   clipboard, active_focus, preview_scroll>>

\* Open hands the entry to xdg-open and keeps nothing of it.
Open ==
    /\ alive
    /\ UNCHANGED state

PreviewReady(content) ==
    /\ alive
    /\ preview' = [tag |-> "Ready", content |-> content]
    /\ UNCHANGED <<fs, alive, cwd, entries, cursor, selected, clipboard,
                   active_focus, preview_scroll, popup>>

PreviewError(path, error) ==
    /\ alive
    /\ preview' = [tag |-> "Error", path |-> path, message |-> error]
    /\ UNCHANGED <<fs, alive, cwd, entries, cursor, selected, clipboard,
                   active_focus, preview_scroll, popup>>

SwitchFocus ==
    /\ alive
    /\ active_focus' = IF active_focus = "FileList" THEN "Preview"
                       ELSE "FileList"
    /\ UNCHANGED <<fs, alive, cwd, entries, cursor, selected, preview,
                   clipboard, preview_scroll, popup>>

\* A PopupSubmit that changes the mode and closes the popup but keeps the
\* listing it had.
PopupSubmitNoReload ==
    /\ alive
    /\ IF popup.tag = "Chmod"
       THEN fs' = SetPermissions(fs, popup.path, popup.mode).fs
       ELSE fs' = fs
    /\ popup' = PopupNone
    /\ UNCHANGED <<alive, cwd, entries, cursor, selected, preview, clipboard,
                   active_focus, preview_scroll>>

\* A submit that hands over the nine permission bits only.
PopupSubmitLowBits ==
    /\ alive
    /\ IF popup.tag = "Chmod"
       THEN LET s == SetPermissions(fs, popup.path, popup.mode % 512)
                r == Reloaded(s.fs, cwd)
            IN /\ fs' = s.fs
               /\ alive' = (r.res # "panic")
               /\ entries' = IF r.res = "ok" THEN r.list ELSE entries
       ELSE UNCHANGED <<fs, alive, entries>>
    /\ popup' = PopupNone
    /\ UNCHANGED <<cwd, cursor, selected, preview, clipboard, active_focus,
                   preview_scroll>>

PopupSubmit ==
    /\ alive
    /\ IF popup.tag = "Chmod"
       THEN LET s == SetPermissions(fs, popup.path, popup.mode)
                r == Reloaded(s.fs, cwd)
            IN /\ fs' = s.fs
               /\ alive' = (r.res # "panic")
               /\ entries' = IF r.res = "ok" THEN r.list ELSE entries
       ELSE UNCHANGED <<fs, alive, entries>>
    /\ popup' = PopupNone
    /\ UNCHANGED <<cwd, cursor, selected, preview, clipboard, active_focus,
                   preview_scroll>>

\* A PopupCancel that writes the pending mode before it closes the popup.
PopupCancelApplies ==
    /\ alive
    /\ IF popup.tag = "Chmod"
       THEN fs' = SetPermissions(fs, popup.path, popup.mode).fs
       ELSE fs' = fs
    /\ popup' = PopupNone
    /\ UNCHANGED <<alive, cwd, entries, cursor, selected, preview, clipboard,
                   active_focus, preview_scroll>>

PopupCancel ==
    /\ alive
    /\ popup' = PopupNone
    /\ UNCHANGED <<fs, alive, cwd, entries, cursor, selected, preview,
                   clipboard, active_focus, preview_scroll>>

\* The bit PopupToggle flips for a cell of the grid.
ToggleBit(idx) ==
    CASE idx = 0 -> 256 [] idx = 1 -> 128 [] idx = 2 -> 64
      [] idx = 3 -> 32  [] idx = 4 -> 16  [] idx = 5 -> 8
      [] idx = 6 -> 4   [] idx = 7 -> 2   [] idx = 8 -> 1
      [] OTHER -> 0

PopupToggle ==
    /\ alive
    /\ IF popup.tag = "Chmod" /\ ToggleBit(popup.cursor_idx) # 0
       THEN popup' = [popup EXCEPT
                         !.mode = XorBit(@, ToggleBit(popup.cursor_idx))]
       ELSE popup' = popup
    /\ UNCHANGED <<fs, alive, cwd, entries, cursor, selected, preview,
                   clipboard, active_focus, preview_scroll>>

ScrollPreviewUp ==
    /\ alive
    /\ preview_scroll' = IF active_focus = "Preview" /\ preview_scroll > 0
                         THEN preview_scroll - 1 ELSE preview_scroll
    /\ UNCHANGED <<fs, alive, cwd, entries, cursor, selected, preview,
                   clipboard, active_focus, popup>>

ScrollPreviewDown ==
    /\ alive
    /\ preview_scroll' = IF active_focus = "Preview"
                         THEN preview_scroll + 1 ELSE preview_scroll
    /\ preview_scroll' <= MaxScroll
    /\ UNCHANGED <<fs, alive, cwd, entries, cursor, selected, preview,
                   clipboard, active_focus, popup>>

\* A subtraction that does not stop at 0.
WrappingSub(a, b) == a - b

\* usize::saturating_sub.
SaturatingSub(a, b) == IF a >= b THEN a - b ELSE 0

ScrollPreviewPageUp ==
    /\ alive
    /\ preview_scroll' = IF active_focus = "Preview"
                         THEN SaturatingSub(preview_scroll, 10)
                         ELSE preview_scroll
    /\ UNCHANGED <<fs, alive, cwd, entries, cursor, selected, preview,
                   clipboard, active_focus, popup>>

ScrollPreviewPageDown ==
    /\ alive
    /\ preview_scroll' = IF active_focus = "Preview"
                         THEN preview_scroll + 10 ELSE preview_scroll
    /\ preview_scroll' <= MaxScroll
    /\ UNCHANGED <<fs, alive, cwd, entries, cursor, selected, preview,
                   clipboard, active_focus, popup>>

PopupUp ==
    /\ alive
    /\ IF popup.tag = "Chmod" /\ popup.cursor_idx >= 3
       THEN popup' = [popup EXCEPT !.cursor_idx = @ - 3]
       ELSE popup' = popup
    /\ UNCHANGED <<fs, alive, cwd, entries, cursor, selected, preview,
                   clipboard, active_focus, preview_scroll>>

PopupDown ==
    /\ alive
    /\ IF popup.tag = "Chmod" /\ popup.cursor_idx < 6
       THEN popup' = [popup EXCEPT !.cursor_idx = @ + 3]
       ELSE popup' = popup
    /\ UNCHANGED <<fs, alive, cwd, entries, cursor, selected, preview,
                   clipboard, active_focus, preview_scroll>>

PopupLeft ==
    /\ alive
    /\ IF popup.tag = "Chmod" /\ popup.cursor_idx % 3 > 0
       THEN popup' = [popup EXCEPT !.cursor_idx = @ - 1]
       ELSE popup' = popup
    /\ UNCHANGED <<fs, alive, cwd, entries, cursor, selected, preview,
                   clipboard, active_focus, preview_scroll>>

\* A step right that runs on from the end of a row into the next.
PopupRightWraps ==
    /\ alive
    /\ IF popup.tag = "Chmod" /\ popup.cursor_idx < 8
       THEN popup' = [popup EXCEPT !.cursor_idx = @ + 1]
       ELSE popup' = popup
    /\ UNCHANGED <<fs, alive, cwd, entries, cursor, selected, preview,
                   clipboard, active_focus, preview_scroll>>

PopupRight ==
    /\ alive
    /\ IF popup.tag = "Chmod" /\ popup.cursor_idx % 3 < 2
       THEN popup' = [popup EXCEPT !.cursor_idx = @ + 1]
       ELSE popup' = popup
    /\ UNCHANGED <<fs, alive, cwd, entries, cursor, selected, preview,
                   clipboard, active_focus, preview_scroll>>

\* The paths a preview is asked for: those of the listed entries.
PreviewPaths == {entries[i].path : i \in 1..Len(entries)}

\* The contents and the error handed to PreviewReady and PreviewError.
PreviewContents ==
    {[type |-> "Text", title |-> "A", content |-> "text"],
     [type |-> "Binary", title |-> "A", size |-> 0]}

PreviewErrors == {"No such file or directory"}

\* One more turn of the event loop, while the run has some left.
Turn ==
    /\ steps < MaxSteps /\ ~quit
    /\ steps' = steps + 1
    /\ UNCHANGED <<input, paste>>

\* One more reducer action, while the run has some left.
Tick == Turn /\ quit' = quit

\* Any reducer action, in any state.
Next ==
    \/ Tick /\ CursorMoveUp
    \/ Tick /\ CursorMoveDown
    \/ Tick /\ EnterDir
    \/ Tick /\ GoBack
    \/ Tick /\ (\E path \in PreviewPaths : RequestPreview(path))
    \/ Tick /\ ToggleSelect
    \/ Tick /\ Yank
    \/ Tick /\ Paste
    \/ Tick /\ Delete
    \/ Tick /\ Chmod
    \/ Tick /\ Open
    \/ Tick /\ (\E content \in PreviewContents : PreviewReady(content))
    \/ Tick /\ (\E path \in PreviewPaths, error \in PreviewErrors :
                    PreviewError(path, error))
    \/ Tick /\ SwitchFocus
    \/ Tick /\ ScrollPreviewUp
    \/ Tick /\ ScrollPreviewDown
    \/ Tick /\ ScrollPreviewPageUp
    \/ Tick /\ ScrollPreviewPageDown
    \/ Tick /\ PopupUp
    \/ Tick /\ PopupDown
    \/ Tick /\ PopupLeft
    \/ Tick /\ PopupRight
    \/ Tick /\ PopupToggle
    \/ Tick /\ PopupSubmit
    \/ Tick /\ PopupCancel

Spec == Init /\ [][Next]_vars

(* ---------------------------- event loop ------------------------------- *)

\* Which of the two key tables of run_app a key event goes through.
PopupOpen == popup.tag # "None"

\* A key event that reaches no arm of its table.
Idle == alive /\ UNCHANGED state

\* A quit key that ends the program whether or not a popup is open.
KeyQAlwaysQuits == alive /\ quit' = TRUE /\ UNCHANGED state

\* 'q': returns from run_app, or cancels the popup.
KeyQ ==
    IF PopupOpen THEN PopupCancel /\ quit' = quit
    ELSE alive /\ quit' = TRUE /\ UNCHANGED state

\* Esc.
KeyEsc == IF PopupOpen THEN PopupCancel ELSE Idle

\* Tab with Control held (Tab alone matches no arm).
KeyCtrlTab == IF PopupOpen THEN Idle ELSE SwitchFocus

\* 'h' with Control held.
KeyCtrlH == IF PopupOpen THEN PopupLeft ELSE SwitchFocus

\* 'j' or Down.
KeyDown ==
    IF PopupOpen THEN PopupDown
    ELSE IF active_focus = "Preview" THEN ScrollPreviewDown
    ELSE CursorMoveDown

\* 'k' or Up.
KeyUp ==
    IF PopupOpen THEN PopupUp
    ELSE IF active_focus = "Preview" THEN ScrollPreviewUp
    ELSE CursorMoveUp

\* PageUp, or 'u' with Control held.
KeyPageUp == IF PopupOpen THEN Idle ELSE ScrollPreviewPageUp

\* PageDown, or 'd' with Control held.
KeyPageDown == IF PopupOpen THEN Idle ELSE ScrollPreviewPageDown

\* Space.
KeySpace == IF PopupOpen THEN PopupToggle ELSE ToggleSelect

\* Enter.
KeyEnter ==
    IF PopupOpen THEN PopupSubmit
    ELSE IF active_focus = "FileList" THEN EnterDir ELSE Idle

\* 'l' or Right.
KeyRight ==
    IF PopupOpen THEN PopupRight
    ELSE IF active_focus = "FileList" THEN EnterDir ELSE Idle

\* 'h' or Left, without Control.
KeyLeft ==
    IF PopupOpen THEN PopupLeft
    ELSE IF active_focus = "FileList" THEN GoBack ELSE Idle

\* Left with Control held: the guard of the GoBack arm fails.
KeyCtrlLeft == IF PopupOpen THEN PopupLeft ELSE Idle

\* Backspace, without Control.
KeyBackspace ==
    IF PopupOpen THEN Idle
    ELSE IF active_focus = "FileList" THEN GoBack ELSE Idle

\* 'y'.
KeyY == IF PopupOpen THEN Idle ELSE Yank

\* 'P'.
KeyShiftP == IF PopupOpen THEN Idle ELSE Paste

\* 'd', without Control.
KeyD == IF PopupOpen THEN Idle ELSE Delete

\* 'x'.
KeyX == IF PopupOpen THEN PopupToggle ELSE Chmod

\* 'o'.
KeyO == IF PopupOpen THEN Idle ELSE Open

\* 'p': RequestPreview of the entry under the cursor, then at once the
\* PreviewReady or PreviewError the loader answers with.
\* The 'p' handler that sends RequestPreview and leaves it at that.
RequestedOnly(path, r) ==
    /\ alive
    /\ preview_scroll' = 0
    /\ preview' = [tag |-> "Loading", path |-> path]
    /\ UNCHANGED <<fs, alive, cwd, entries, cursor, selected, clipboard,
                   active_focus, popup>>

\* reduce(RequestPreview(path)), then reduce(PreviewReady(content)) or
\* reduce(PreviewError{path, error}) with the answer r of the loader.
Previewed(path, r) ==
    /\ alive
    /\ preview_scroll' = 0
    /\ preview' = IF r.ok THEN [tag |-> "Ready", content |-> r.content]
                  ELSE [tag |-> "Error", path |-> path, message |-> r.error]
    /\ UNCHANGED <<fs, alive, cwd, entries, cursor, selected, clipboard,
                   active_focus, popup>>

KeyP ==
    IF PopupOpen \/ ~HasEntry THEN Idle
    ELSE Previewed(EntryAtCursor.path, Load(fs, EntryAtCursor.path))

\* Any other key, and any event that is not a key press.
KeyOther == Idle

\* The key events of one turn of the loop.
KeyNext ==
    \/ Turn /\ KeyQ
    \/ Tick /\ KeyEsc
    \/ Tick /\ KeyCtrlTab
    \/ Tick /\ KeyCtrlH
    \/ Tick /\ KeyDown
    \/ Tick /\ KeyUp
    \/ Tick /\ KeyPageUp
    \/ Tick /\ KeyPageDown
    \/ Tick /\ KeySpace
    \/ Tick /\ KeyEnter
    \/ Tick /\ KeyRight
    \/ Tick /\ KeyLeft
    \/ Tick /\ KeyCtrlLeft
    \/ Tick /\ KeyBackspace
    \/ Tick /\ KeyY
    \/ Tick /\ KeyShiftP
    \/ Tick /\ KeyD
    \/ Tick /\ KeyX
    \/ Tick /\ KeyO
    \/ Tick /\ KeyP
    \/ Tick /\ KeyOther

\* The program: run_app on the state main builds.
KeySpec == Init /\ [][KeyNext]_vars

(* ------------------------ the listing on its own ----------------------- *)

\* The FsEntry read_entries builds for child x of such a directory.
RawEntry(x, kind) ==
    [path |-> <<x>>,
     name |-> x,
     is_dir |-> kind = "dir",
     permissions |-> PermString(kind = "dir",
                                IF kind = "dir" THEN DirCreateMode ELSE 420)]

\* read_entries on the directory of input: the entries collected, sorted.
ListDirectory ==
    /\ input.tag = "Dir"
    /\ steps = 0
    /\ entries' = SortEntries({RawEntry(x, input.kinds[x]) :
                                 x \in {y \in ListNames :
                                          input.kinds[y] # "none"}})
    /\ UNCHANGED <<fs, alive, cwd, cursor, selected, preview, clipboard,
                   active_focus, preview_scroll, popup>>

\* The directories handed to the listing: for each name, whether the
\* directory holds it, and as a file or as a directory.
ListInit ==
    /\ fs = InitFs
    /\ alive = TRUE
    /\ cwd = Root
    /\ entries = <<>>
    /\ cursor = 0
    /\ selected = {}
    /\ preview = PreviewNone
    /\ clipboard = ClipboardNone
    /\ active_focus = "FileList"
    /\ preview_scroll = 0
    /\ popup = PopupNone
    /\ steps = 0
    /\ quit = FALSE
    /\ input \in {[tag |-> "Dir", kinds |-> k] :
                     k \in [ListNames -> {"none", "file", "dir"}]}
    /\ paste = NoPaste

ListNext ==
    \/ Tick /\ ListDirectory

ListSpec == ListInit /\ [][ListNext]_vars

(* --------------------- the preview loader on its own ------------------- *)

\* The bytes of the files handed to the loader: text, an empty file, bytes
\* that are no text, a 2 x 3 image, and an image cut off after its
\* signature.
SampleBytes ==
    {DataBytes.text, DataBytes.empty, DataBytes.bin,
     PngSignature \o <<2, 3>>, PngSignature}

\* What can be found at a path: nothing, a directory, or a file that can or
\* cannot be opened to read.
LoadInputs ==
    {[tag |-> "Path", name |-> n, stat |-> "none", readable |-> FALSE,
      bytes |-> <<>>, tree |-> <<>>] : n \in LoadNames}
    \cup {[tag |-> "Path", name |-> n, stat |-> "dir", readable |-> r,
           bytes |-> <<>>, tree |-> IF r THEN TreeLine(1, "A") ELSE <<>>] :
             n \in LoadNames, r \in BOOLEAN}
    \cup {[tag |-> "Path", name |-> n, stat |-> "file", readable |-> r,
           bytes |-> b, tree |-> <<>>] :
             n \in LoadNames, r \in BOOLEAN, b \in SampleBytes}

\* 'p' on the path of input.
LoadPreview ==
    /\ input.tag = "Path"
    /\ steps = 0
    /\ Previewed(<<input.name>>, Classify(input))

LoadInit ==
    /\ fs = InitFs
    /\ alive = TRUE
    /\ cwd = Root
    /\ entries = <<>>
    /\ cursor = 0
    /\ selected = {}
    /\ preview = PreviewNone
    /\ clipboard = ClipboardNone
    /\ active_focus = "FileList"
    /\ preview_scroll = 0
    /\ popup = PopupNone
    /\ steps = 0
    /\ quit = FALSE
    /\ input \in LoadInputs
    /\ paste = NoPaste

LoadNext ==
    \/ Tick /\ LoadPreview

LoadSpec == LoadInit /\ [][LoadNext]_vars

(* ----------------------- a Paste, call by call ------------------------- *)

\* The paths a clipboard can hold: those of entries, so never the root,
\* and of entries deleted since the Yank, so not all of them exist.
Yankable ==
    {p \in Paths : p # Root /\ Len(p) <= 2 /\ InitFs[Parent(p)].kind = "dir"}

\* The frame of a call copy_recursive(src, dst): before its first
\* statement (open = FALSE), or inside its loop over the entries of src,
\* todo being those read_dir has still to hand out.
Frame(src, dst) == [src |-> src, dst |-> dst, open |-> FALSE, todo |-> {}]

Top == paste.stack[Len(paste.stack)]

Popped == SubSeq(paste.stack, 1, Len(paste.stack) - 1)

Copying == paste.phase = "copying" /\ paste.stack # <<>>

PasteFrame == UNCHANGED <<alive, cwd, cursor, selected, preview, clipboard,
                          active_focus, preview_scroll, popup, steps, quit,
                          input>>

\* reduce(Paste), up to its loop.
PasteBegin ==
    /\ paste.phase = "idle" /\ clipboard.tag = "Some"
    /\ paste' = [phase |-> "copying", items |-> clipboard.paths,
                 stack |-> <<>>]
    /\ UNCHANGED <<fs, entries>> /\ PasteFrame

\* The loop of Paste calls copy_recursive for its next path.
PasteItem ==
    /\ paste.phase = "copying" /\ paste.stack = <<>> /\ paste.items # <<>>
    /\ paste' = [paste EXCEPT
                   !.items = Tail(@),
                   !.stack = <<Frame(Head(paste.items),
                                     Join(cwd, FileName(Head(paste.items))))>>]
    /\ UNCHANGED <<fs, entries>> /\ PasteFrame

\* copy_recursive on a source that does not exist: return Ok.
CopyMissing ==
    /\ Copying /\ ~Top.open /\ ~PathExists(fs, Top.src)
    /\ paste' = [paste EXCEPT !.stack = Popped]
    /\ UNCHANGED <<fs, entries>> /\ PasteFrame

\* copy_recursive on a directory: create dst if it is not there and open
\* src; a failure of either returns Err through every caller.
CopyDir ==
    /\ Copying /\ ~Top.open /\ PathIsDir(fs, Top.src)
    /\ LET r == IF ~PathExists(fs, Top.dst) THEN CreateDirAll(fs, Top.dst)
                ELSE [ok |-> TRUE, fs |-> fs]
       IN /\ fs' = r.fs
          /\ IF ~r.ok \/ ~HasBit(Node(r.fs, Top.src).mode, S_IRUSR)
             THEN paste' = [paste EXCEPT !.stack = <<>>]
             ELSE paste' = [paste EXCEPT
                              !.stack[Len(paste.stack)] =
                                  [Top EXCEPT !.open = TRUE,
                                              !.todo = ChildNames(r.fs, Top.src)]]
    /\ UNCHANGED entries /\ PasteFrame

\* copy_recursive on a file: create the parent of dst, copy; a failure of
\* either returns Err through every caller.
CopyFile ==
    /\ Copying /\ ~Top.open
    /\ PathExists(fs, Top.src) /\ ~PathIsDir(fs, Top.src)
    /\ LET r == CreateDirAll(fs, Parent(Top.dst))
           c == FileCopy(r.fs, Top.src, Top.dst)
       IN IF ~r.ok
          THEN fs' = r.fs /\ paste' = [paste EXCEPT !.stack = <<>>]
          ELSE /\ fs' = c.fs
               /\ paste' = [paste EXCEPT
                              !.stack = IF c.ok THEN Popped ELSE <<>>]
    /\ UNCHANGED entries /\ PasteFrame

\* A loop over the entries of src that takes an entry and never counts it
\* as taken.
CopyChildAgain ==
    /\ Copying /\ Top.open
    /\ \E x \in Top.todo :
          paste' = [paste EXCEPT
                      !.stack = Append(paste.stack,
                                       Frame(Join(Top.src, x),
                                             Join(Top.dst, x)))]
    /\ UNCHANGED <<fs, entries>> /\ PasteFrame

\* The loop over the entries of src hands out the next one: the call for it.
CopyChild ==
    /\ Copying /\ Top.open
    /\ \E x \in Top.todo :
          paste' = [paste EXCEPT
                      !.stack = Append([paste.stack EXCEPT
                                          ![Len(paste.stack)].todo = @ \ {x}],
                                       Frame(Join(Top.src, x),
                                             Join(Top.dst, x)))]
    /\ UNCHANGED <<fs, entries>> /\ PasteFrame

\* The loop over the entries of src is through: return Ok.
CopyReturn ==
    /\ Copying /\ Top.open /\ Top.todo = {}
    /\ paste' = [paste EXCEPT !.stack = Popped]
    /\ UNCHANGED <<fs, entries>> /\ PasteFrame

\* The loop of Paste is through: reload the listing.
PasteEnd ==
    /\ paste.phase = "copying" /\ paste.stack = <<>> /\ paste.items = <<>>
    /\ LET r == Reloaded(fs, cwd) IN
           /\ alive' = (r.res # "panic")
           /\ entries' = IF r.res = "ok" THEN r.list ELSE entries
    /\ paste' = [paste EXCEPT !.phase = "done"]
    /\ UNCHANGED <<fs, cwd, cursor, selected, preview, clipboard,
                   active_focus, preview_scroll, popup, steps, quit, input>>

\* Any clipboard a Yank can leave (up to MaxSel paths, in any order), in
\* any directory of the filesystem the program is started on.
PasteInit ==
    /\ fs = InitFs
    /\ alive = TRUE
    /\ cwd \in {p \in Paths : ReadEntries(InitFs, p).res = "ok"}
    /\ entries = ReadEntries(InitFs, cwd).list
    /\ cursor = 0
    /\ selected = {}
    /\ preview = PreviewNone
    /\ \E S \in {T \in SUBSET Yankable : T # {} /\ Cardinality(T) <= MaxSel} :
       \E paths \in Orders(S) :
          clipboard = [tag |-> "Some", op |-> "Copy", paths |-> paths]
    /\ active_focus = "FileList"
    /\ preview_scroll = 0
    /\ popup = PopupNone
    /\ steps = 0
    /\ quit = FALSE
    /\ input = NoInput
    /\ paste = NoPaste

PasteNext ==
    \/ PasteBegin
    \/ PasteItem
    \/ CopyMissing
    \/ CopyDir
    \/ CopyFile
    \/ CopyChild
    \/ CopyReturn
    \/ PasteEnd

\* The calls of one Paste; the thread that runs them is never held up.
PasteSpec == PasteInit /\ [][PasteNext]_vars /\ WF_vars(PasteNext)

(* ------------------------------ claims --------------------------------- *)

\* C1: in every reachable state the cursor is below len(entries) when
\* entries is non-empty, and 0 when entries is empty.
C1_CursorInBounds ==
    alive => IF Len(entries) > 0 THEN cursor < Len(entries) ELSE cursor = 0

\* EnterDir cannot change directory: no directory under the cursor, or
\* one whose listing returns an error.
EnterDirCannot ==
    \/ ~HasEntry
    \/ ~EntryAtCursor.is_dir
    \/ ReadEntries(fs, EntryAtCursor.path).res = "err"

\* GoBack cannot change directory: no parent, or a parent whose listing
\* returns an error.
GoBackCannot ==
    \/ cwd = Root
    \/ ReadEntries(fs, Parent(cwd)).res = "err"

\* C2: EnterDir and GoBack leave the whole state unchanged when they cannot
\* change directory (non-directory entry, directory or parent whose listing
\* fails, no parent).
C2_FailedNavigationIsNoOp ==
    [][ ((EnterDir /\ EnterDirCannot) \/ (GoBack /\ GoBackCannot))
        => UNCHANGED state ]_vars

\* Reached: a directory under the cursor whose listing fails, with a
\* preview, a selection, a clipboard and an open popup to be kept.
C2_Witness ==
    /\ alive /\ steps < MaxSteps
    /\ HasEntry /\ EntryAtCursor.is_dir
    /\ ReadEntries(fs, EntryAtCursor.path).res = "err"
    /\ selected # {}

\* C3: a successful EnterDir or GoBack makes the target the current
\* directory, its listing the entries, the cursor 0, the preview Empty and
\* the scroll 0, in one step.
C3_DirectoryChangeIsAtomic ==
    [][ /\ (EnterDir /\ ~EnterDirCannot /\ alive')
           => /\ cwd' = EntryAtCursor.path
              /\ entries' = ReadEntries(fs, EntryAtCursor.path).list
              /\ cursor' = 0 /\ preview' = PreviewNone /\ preview_scroll' = 0
        /\ (GoBack /\ ~GoBackCannot /\ alive')
           => /\ cwd' = Parent(cwd)
              /\ entries' = ReadEntries(fs, Parent(cwd)).list
              /\ cursor' = 0 /\ preview' = PreviewNone /\ preview_scroll' = 0
      ]_vars

\* Reached: a readable directory under a cursor that is not 0, with a
\* preview and a scroll offset to be reset.
C3_Witness ==
    /\ alive /\ steps < MaxSteps
    /\ ~EnterDirCannot /\ ReadEntries(fs, EntryAtCursor.path).res = "ok"
    /\ cursor > 0 /\ preview # PreviewNone /\ preview_scroll > 0

\* The target set the action descriptions give Yank and Delete: the
\* selection if there is one, otherwise the entry under the cursor.
TargetSet ==
    IF selected # {} THEN selected
    ELSE IF HasEntry THEN {EntryAtCursor.path} ELSE {}

\* C4: Yank takes the selection if it is non-empty and otherwise the entry
\* under the cursor; afterwards the clipboard is operation Copy with exactly
\* those paths, each once, and the selection is empty.
C4_YankTakesTargetSet ==
    [][ (Yank /\ TargetSet # {})
        => /\ clipboard'.tag = "Some"
           /\ clipboard'.op = "Copy"
           /\ Range(clipboard'.paths) = TargetSet
           /\ Len(clipboard'.paths) = Cardinality(TargetSet)
           /\ selected' = {} ]_vars

\* Reached: a clipboard holding two paths, left by Yank on a selection of
\* two, in a directory other than the one they are in.
C4_Witness ==
    /\ alive /\ selected = {}
    /\ clipboard.tag = "Some" /\ Len(clipboard.paths) = 2
    /\ \E i \in 1..2 : Parent(clipboard.paths[i]) # cwd

\* C5 as stated: with a non-empty selection, Yank followed at once by Yank
\* leaves a clipboard holding exactly the entry under the cursor, also in a
\* directory with no entries.
C5_SecondYankTakesCursorEntry ==
    (alive /\ selected # {})
    => \A y1 \in Yanked(selected, clipboard) :
          \A y2 \in Yanked(y1.selected, y1.clipboard) :
             /\ HasEntry
             /\ y2.clipboard.tag = "Some"
             /\ y2.clipboard.paths = <<EntryAtCursor.path>>

\* C5, amended: with a non-empty selection, the first Yank puts the
\* selection in the clipboard and empties it; the second Yank replaces the
\* clipboard by the entry under the cursor when there is one, and changes
\* nothing when there is none, so that the clipboard still holds the former
\* selection.
C5_SecondYankNeedsCursorEntry ==
    (alive /\ selected # {})
    => \A y1 \in Yanked(selected, clipboard) :
          /\ y1.selected = {}
          /\ y1.clipboard.tag = "Some"
          /\ Range(y1.clipboard.paths) = selected
          /\ \A y2 \in Yanked(y1.selected, y1.clipboard) :
                IF HasEntry
                THEN /\ y2.clipboard.tag = "Some"
                     /\ y2.clipboard.op = "Copy"
                     /\ y2.clipboard.paths = <<EntryAtCursor.path>>
                     /\ y2.selected = {}
                ELSE y2 = y1

\* Reached: a non-empty selection in a directory that has no entry under
\* the cursor, with room for the two Yanks.
C5_Witness ==
    /\ alive /\ selected # {} /\ ~HasEntry
    /\ steps + 2 <= MaxSteps

\* C6: ToggleSelect inserts the path under the cursor if absent and removes
\* it if present, so that a second ToggleSelect on the same entry restores
\* the selection; it changes nothing but the selection.
C6_ToggleSelectIsInvolutive ==
    [][ (ToggleSelect /\ HasEntry)
        => /\ selected' = IF EntryAtCursor.path \in selected
                          THEN selected \ {EntryAtCursor.path}
                          ELSE selected \cup {EntryAtCursor.path}
           /\ Toggled(selected', EntryAtCursor.path) = selected
           /\ UNCHANGED <<fs, alive, cwd, entries, cursor, preview,
                          clipboard, active_focus, preview_scroll, popup>>
      ]_vars

\* Reached: the path under the cursor is selected next to another one, so
\* that ToggleSelect removes it and a second one puts it back.
C6_Witness ==
    /\ alive /\ steps + 2 <= MaxSteps
    /\ HasEntry /\ EntryAtCursor.path \in selected
    /\ selected # {EntryAtCursor.path}

\* The paths at or below p.
Under(p) == {q \in Paths : IsPrefix(p, q)}

\* The filesystem lets the process remove p with all it holds: p can be
\* reached, its parent can be written, and every directory at or below p
\* can be read and, unless it is empty, written and searched.
Removable(f, p) ==
    /\ p # Root /\ StatOk(f, p)
    /\ HasBit(Node(f, Parent(p)).mode, S_IWUSR)
    /\ \A q \in Under(p) :
          Node(f, q).kind = "dir"
          => /\ HasBit(Node(f, q).mode, S_IRUSR)
             /\ ChildNames(f, q) # {}
                => /\ HasBit(Node(f, q).mode, S_IWUSR)
                   /\ HasBit(Node(f, q).mode, S_IXUSR)

\* Delete touches nothing outside its targets and what is below them, and
\* empties the selection.
DeleteFrame ==
    /\ \A q \in Paths : (\A p \in TargetSet : ~IsPrefix(p, q)) => fs'[q] = fs[q]
    /\ selected' = {}

\* C7 as stated: Delete takes the target set of Yank; afterwards no target
\* path exists, nothing outside the targets and their descendants is
\* removed, and the selection is empty.
C7_DeleteRemovesEveryTarget ==
    [][ Delete
        => /\ \A p \in TargetSet : Node(fs', p).kind = "none"
           /\ DeleteFrame ]_vars

\* C7, amended: Delete takes the target set of Yank; afterwards no target
\* that the filesystem lets the process remove exists, with anything below
\* it, whether or not another target failed; a target it does not let the
\* process remove may stay; nothing outside the targets and their
\* descendants is removed, and the selection is empty.
C7_DeleteRemovesRemovableTargets ==
    [][ Delete
        => /\ \A p \in TargetSet :
                 Removable(fs, p) => \A q \in Under(p) : Node(fs', q).kind = "none"
           /\ DeleteFrame ]_vars

\* Reached: a selection of two targets, one that can be removed and one,
\* a read-only directory that is not empty, that cannot.
C7_Witness ==
    /\ alive /\ steps < MaxSteps
    /\ \E p, q \in selected :
          /\ Removable(fs, p)
          /\ StatOk(fs, q) /\ ~Removable(fs, q)

\* What is at or below src in filesystem f is found, with the same kind and
\* for a file the same bytes, at or below dst in filesystem g.
CopiedInto(f, g, src, dst) ==
    \A q \in Under(src) :
       Node(f, q).kind # "none"
       => LET d == dst \o SubSeq(q, Len(src) + 1, Len(q))
          IN /\ Node(g, d).kind = Node(f, q).kind
             /\ Node(f, q).kind = "file" => Node(g, d).data = Node(f, q).data

\* C8: Paste copies every clipboard path that still exists into the
\* current directory under its base name, with what it holds; it creates
\* nothing for a path that no longer exists; it goes on past an item that
\* fails; then entries is the reloaded listing.  Without a clipboard it
\* changes nothing.  Read with the least demanded of it: only of a clipboard
\* of one path, only when that copy reports no failure, and of entries only
\* when the listing can be read.
C8_PasteCopiesClipboard ==
    [][ Paste
        => IF clipboard.tag = "None" THEN UNCHANGED state
           ELSE /\ (\A i \in 1..Len(clipboard.paths) :
                       ~PathExists(fs, clipboard.paths[i])) => fs' = fs
                /\ Len(clipboard.paths) = 1
                   => \A o \in PasteLoop(fs, cwd, clipboard.paths) :
                         (fs' = o.fs /\ o.oks[1]
                            /\ PathExists(fs, clipboard.paths[1]))
                         => CopiedInto(fs, fs', clipboard.paths[1],
                                       Join(cwd, FileName(clipboard.paths[1])))
                /\ ReadEntries(fs', cwd).res = "ok"
                   => entries' = ReadEntries(fs', cwd).list ]_vars

\* C9: EnterDir and GoBack never change the selection: paths selected in
\* one directory stay selected in another, where they are the targets of
\* Yank and Delete.
C9_NavigationKeepsSelection ==
    [][ (EnterDir \/ GoBack)
        => /\ selected' = selected
           /\ selected # {}
              => \A paths \in TargetPaths(selected)' : Range(paths) = selected
      ]_vars

\* Reached: after a directory change, a selected path of a directory that
\* is not the current one.
C9_Witness ==
    /\ alive
    /\ \E p \in selected : Parent(p) # cwd /\ p # cwd

\* The actions other than ToggleSelect, Yank and Delete.
OtherAction ==
    \/ CursorMoveUp \/ CursorMoveDown \/ EnterDir \/ GoBack
    \/ \E path \in PreviewPaths : RequestPreview(path)
    \/ Paste \/ Chmod \/ Open
    \/ \E content \in PreviewContents : PreviewReady(content)
    \/ \E path \in PreviewPaths, error \in PreviewErrors :
          PreviewError(path, error)
    \/ SwitchFocus
    \/ ScrollPreviewUp \/ ScrollPreviewDown
    \/ ScrollPreviewPageUp \/ ScrollPreviewPageDown
    \/ PopupUp \/ PopupDown \/ PopupLeft \/ PopupRight
    \/ PopupToggle \/ PopupSubmit \/ PopupCancel

\* ToggleSelect keeps every selected path but the one under the cursor.
ToggleKeeps ==
    ToggleSelect
    => \A p \in selected : p \in selected' \/ (HasEntry /\ p = EntryAtCursor.path)

\* C10 as stated: only Yank clears the selection; every other action keeps
\* every selected path, but for ToggleSelect and the path under the cursor.
C10_OnlyYankClears ==
    [][ /\ (OtherAction \/ Delete) => selected \subseteq selected'
        /\ ToggleKeeps ]_vars

\* C10, amended: only Yank and Delete clear the selection; every other
\* action keeps every selected path, but for ToggleSelect and the path
\* under the cursor.
C10_OnlyYankAndDeleteClear ==
    [][ /\ OtherAction => selected \subseteq selected'
        /\ ToggleKeeps
        /\ (Yank \/ Delete) => selected' = {} ]_vars

\* Reached: a selection that has outlived a Paste and the opening of the
\* popup.
C10_Witness ==
    /\ alive /\ steps < MaxSteps
    /\ selected # {} /\ popup.tag = "Chmod"
    /\ clipboard.tag = "Some"
    /\ \E i \in 1..Len(entries) :
          entries[i].path = Join(cwd, FileName(clipboard.paths[1]))
          /\ Parent(clipboard.paths[1]) # cwd

\* C11: no action other than Yank changes the clipboard, not EnterDir,
\* GoBack, Paste or a Delete that removes the paths it holds, so that Paste
\* finds the same clipboard again in any directory.
C11_ClipboardPersists ==
    [][ (OtherAction \/ ToggleSelect \/ Delete) => clipboard' = clipboard ]_vars

\* Reached: a clipboard that has outlived the Delete of a path it holds and
\* a change of directory.
C11_Witness ==
    /\ alive
    /\ clipboard.tag = "Some"
    /\ \E i \in 1..Len(clipboard.paths) :
          /\ Node(fs, clipboard.paths[i]).kind = "none"
          /\ Parent(clipboard.paths[i]) # cwd

\* The cursor after k moves down, and after k moves up, in a list of n.
RECURSIVE DownTimes(_, _, _)
DownTimes(c, n, k) == IF k = 0 THEN c ELSE DownTimes(MovedDown(c, n), n, k - 1)

RECURSIVE UpTimes(_, _)
UpTimes(c, k) == IF k = 0 THEN c ELSE UpTimes(MovedUp(c), k - 1)

Min(a, b) == IF a <= b THEN a ELSE b

Max(a, b) == IF a >= b THEN a ELSE b

\* C12: with the focus on the file list and the cursor at s in a list of L
\* entries (s < L), a CursorMoveDown changes the cursor only, so that N of
\* them give min(s + N, L - 1), and N CursorMoveUp give max(s - N, 0); with
\* the focus on the preview neither changes anything.
C12_CursorMovesClamp ==
    [][ /\ (CursorMoveDown /\ active_focus = "FileList" /\ HasEntry)
           => /\ cursor' = DownTimes(cursor, Len(entries), 1)
              /\ UNCHANGED <<fs, alive, cwd, entries, selected, preview,
                             clipboard, active_focus, preview_scroll, popup>>
              /\ \A N \in 0..MaxMoves :
                    DownTimes(cursor, Len(entries), N)
                      = Min(cursor + N, Len(entries) - 1)
        /\ (CursorMoveUp /\ active_focus = "FileList" /\ HasEntry)
           => /\ cursor' = UpTimes(cursor, 1)
              /\ UNCHANGED <<fs, alive, cwd, entries, selected, preview,
                             clipboard, active_focus, preview_scroll, popup>>
              /\ \A N \in 0..MaxMoves : UpTimes(cursor, N) = Max(cursor - N, 0)
        /\ ((CursorMoveUp \/ CursorMoveDown) /\ active_focus = "Preview")
           => UNCHANGED state ]_vars

\* Reached: the focus on the file list and the cursor in the middle of a
\* list of three, with moves to come that reach either end and stay there.
C12_Witness ==
    /\ alive /\ steps < MaxSteps
    /\ active_focus = "FileList" /\ Len(entries) = 3 /\ cursor = 1

\* The permission editor is open.
Editing == popup.tag = "Chmod"

\* The row and the column of a cell of the grid.
Row(i) == i \div 3

Col(i) == i % 3

\* The popup moved to cell i, and nothing else changed.
PopupMovedTo(i) ==
    /\ popup' = [popup EXCEPT !.cursor_idx = i]
    /\ UNCHANGED <<fs, alive, cwd, entries, cursor, selected, preview,
                   clipboard, active_focus, preview_scroll>>

\* C13: while the editor is open cursor_idx is in 0..8; PopupUp and
\* PopupDown move it by 3 within its column, PopupLeft and PopupRight by 1
\* within its row, and Up from row 0, Down from row 2, Left from column 0
\* and Right from column 2 change nothing.
C13_PopupCursorStaysInGrid ==
    [][ /\ popup'.tag = "Chmod" => popup'.cursor_idx \in 0..8
        /\ (Editing /\ PopupUp)
           => PopupMovedTo(IF Row(popup.cursor_idx) = 0 THEN popup.cursor_idx
                           ELSE popup.cursor_idx - 3)
        /\ (Editing /\ PopupDown)
           => PopupMovedTo(IF Row(popup.cursor_idx) = 2 THEN popup.cursor_idx
                           ELSE popup.cursor_idx + 3)
        /\ (Editing /\ PopupLeft)
           => PopupMovedTo(IF Col(popup.cursor_idx) = 0 THEN popup.cursor_idx
                           ELSE popup.cursor_idx - 1)
        /\ (Editing /\ PopupRight)
           => PopupMovedTo(IF Col(popup.cursor_idx) = 2 THEN popup.cursor_idx
                           ELSE popup.cursor_idx + 1)
        /\ (Editing /\ (PopupUp \/ PopupDown))
           => Col(popup'.cursor_idx) = Col(popup.cursor_idx)
        /\ (Editing /\ (PopupLeft \/ PopupRight))
           => Row(popup'.cursor_idx) = Row(popup.cursor_idx) ]_vars

\* Reached: the editor open with the cursor in the last cell of the grid,
\* which Down and Right do not leave.
C13_Witness ==
    /\ alive /\ steps < MaxSteps
    /\ Editing /\ popup.cursor_idx = 8

\* Bit number k of mode word m.
BitAt(m, k) == (m \div 2^k) % 2

\* The POSIX permission bit of a subject (0 owner, 1 group, 2 other) and a
\* permission (0 read, 1 write, 2 execute).
PosixBit(subject, permission) ==
    (CASE subject = 0 -> 64 [] subject = 1 -> 8 [] OTHER -> 1)
    * (CASE permission = 0 -> 4 [] permission = 1 -> 2 [] OTHER -> 1)

\* C14: PopupToggle at cell i flips the POSIX bit of subject i/3 and
\* permission i%3, which is 0o400 >> i, and no other bit of the pending
\* mode; a second toggle of the cell restores the mode; 0o644 toggled at
\* owner-write is 0o444.
C14_ToggleFlipsOneBit ==
    [][ (Editing /\ PopupToggle)
        => LET i == popup.cursor_idx
               b == PosixBit(Row(i), Col(i))
           IN /\ b = 256 \div 2^i
              /\ \A k \in 0..(ModeBits - 1) :
                    (BitAt(popup'.mode, k) # BitAt(popup.mode, k)) <=> (2^k = b)
              /\ XorBit(popup'.mode, ToggleBit(i)) = popup.mode
              /\ (popup.mode % 512 = 420 /\ i = 1) => popup'.mode % 512 = 292
              /\ popup'.tag = "Chmod"
              /\ popup'.path = popup.path /\ popup'.cursor_idx = i
              /\ UNCHANGED <<fs, alive, cwd, entries, cursor, selected,
                             preview, clipboard, active_focus, preview_scroll>>
      ]_vars

\* Reached: the editor on a file of mode 0o644, at owner-write, showing
\* 0o444 after one toggle, with the second to come.
C14_Witness ==
    /\ alive /\ steps < MaxSteps
    /\ Editing /\ popup.cursor_idx = 1
    /\ Node(fs, popup.path).mode = 420 /\ popup.mode % 512 = 292

\* The bits of a mode word above the low nine.
HighBits(m) == m \div 512

\* C15: the bits of the pending mode above the low nine are those of the
\* mode read when the editor was opened: Chmod reads the whole mode word, no
\* popup navigation or toggle changes a bit above the low nine, and
\* PopupSubmit hands the word to the filesystem as it is, which keeps its
\* twelve permission bits (setuid, setgid and sticky among them).
C15_HighBitsPreserved ==
    [][ /\ (Chmod /\ popup' # popup)
           => /\ popup'.mode = StMode(fs, popup'.path)
              /\ HighBits(popup'.mode) % 8 = HighBits(Node(fs, popup'.path).mode)
        /\ (Editing /\ (PopupUp \/ PopupDown \/ PopupLeft \/ PopupRight
                         \/ PopupToggle))
           => /\ popup'.tag = "Chmod"
              /\ HighBits(popup'.mode) = HighBits(popup.mode)
              /\ popup'.path = popup.path
        /\ (Editing /\ PopupSubmit /\ StatOk(fs, popup.path))
           => /\ Node(fs', popup.path).mode = popup.mode % PermModulus
              /\ \A k \in 9..(ModeBits - 1) :
                    2^k < PermModulus
                    => BitAt(Node(fs', popup.path).mode, k) = BitAt(popup.mode, k)
      ]_vars

\* Reached: the editor on a directory with the sticky bit, the pending
\* mode no longer the directory's but with the sticky bit still in it.
C15_Witness ==
    /\ alive /\ steps < MaxSteps
    /\ Editing /\ StatOk(fs, popup.path)
    /\ popup.mode # StMode(fs, popup.path)
    /\ HasBit(popup.mode, 512) /\ HasBit(Node(fs, popup.path).mode, 512)

\* C16: Chmod with the popup closed and an entry under the cursor whose
\* metadata can be read opens the editor on that entry's path, at cell 0,
\* with the entry's current mode; with no entry under the cursor, or
\* metadata that cannot be read, it changes nothing.
C16_ChmodOpensEditor ==
    [][ (Chmod /\ ~Editing)
        => IF HasEntry /\ StatOk(fs, EntryAtCursor.path)
           THEN /\ popup'.tag = "Chmod"
                /\ popup'.path = EntryAtCursor.path
                /\ popup'.cursor_idx = 0
                /\ popup'.mode = StMode(fs, EntryAtCursor.path)
                /\ popup'.mode % PermModulus = Node(fs, EntryAtCursor.path).mode
                /\ UNCHANGED <<fs, alive, cwd, entries, cursor, selected,
                               preview, clipboard, active_focus,
                               preview_scroll>>
           ELSE UNCHANGED state ]_vars

\* Reached: the popup closed and, under the cursor, an entry that is listed
\* but no longer on disk, so that its metadata cannot be read.
C16_Witness ==
    /\ alive /\ steps < MaxSteps
    /\ ~Editing /\ HasEntry /\ ~StatOk(fs, EntryAtCursor.path)

PopupAction ==
    \/ PopupUp \/ PopupDown \/ PopupLeft \/ PopupRight
    \/ PopupToggle \/ PopupSubmit \/ PopupCancel

NonPopupAction ==
    \/ CursorMoveUp \/ CursorMoveDown \/ EnterDir \/ GoBack
    \/ ToggleSelect \/ Yank \/ Paste \/ Delete \/ Open
    \/ \E path \in PreviewPaths : RequestPreview(path)
    \/ \E content \in PreviewContents : PreviewReady(content)
    \/ \E path \in PreviewPaths, error \in PreviewErrors :
          PreviewError(path, error)
    \/ SwitchFocus
    \/ ScrollPreviewUp \/ ScrollPreviewDown
    \/ ScrollPreviewPageUp \/ ScrollPreviewPageDown

\* C17: the popup changes only through its protocol: a Chmod action applied
\* while Editing leaves the target, the pending mode and the cell as they
\* are; the Popup* actions change nothing while the popup is closed; every
\* action other than Chmod and the Popup* actions leaves the popup as it is.
C17_PopupChangesOnlyThroughProtocol ==
    [][ /\ (Chmod /\ Editing) => popup' = popup
        /\ (PopupAction /\ ~Editing) => UNCHANGED state
        /\ NonPopupAction => popup' = popup ]_vars

\* The two parts of C17 that do not concern Chmod, on their own.
C17_RestOfProtocol ==
    [][ /\ (PopupAction /\ ~Editing) => UNCHANGED state
        /\ NonPopupAction => popup' = popup ]_vars

C18_FailedSubmitLeavesFs ==
    [][ (Editing /\ PopupSubmit /\ ~StatOk(fs, popup.path))
        => (fs' = fs /\ popup' = PopupNone) ]_vars

\* C19: PopupCancel from Editing ends with the popup closed and changes
\* neither the filesystem nor any other component of the state.
C19_CancelDiscards ==
    [][ (Editing /\ PopupCancel)
        => /\ popup' = PopupNone
           /\ fs' = fs
           /\ UNCHANGED <<alive, cwd, entries, cursor, selected, preview,
                          clipboard, active_focus, preview_scroll>> ]_vars

\* Reached: the editor open with a pending mode that differs from the mode
\* of its target on disk, so that there is an edit to discard.
C19_Witness ==
    /\ alive /\ steps < MaxSteps
    /\ Editing /\ StatOk(fs, popup.path)
    /\ popup.mode % 512 # Node(fs, popup.path).mode % 512

\* C20: the popup is modal. While Editing, no key event changes cwd, the
\* cursor, the selection, the clipboard, the focus, the preview or its
\* scroll; the filesystem and the listing change only by PopupSubmit (no
\* Yank, Paste, Delete or navigation is dispatched); and the quit key closes
\* the popup and does not end the program.
C20_PopupIsModal ==
    [][ Editing
        => /\ UNCHANGED <<cwd, cursor, selected, clipboard, active_focus,
                          preview, preview_scroll>>
           /\ (fs' # fs \/ entries' # entries) => PopupSubmit
           /\ popup' # popup
              => \/ PopupUp \/ PopupDown \/ PopupLeft \/ PopupRight
                 \/ PopupToggle \/ PopupSubmit \/ PopupCancel
           /\ alive' = alive
           /\ quit' = quit
           /\ KeyQ => popup' = PopupNone ]_vars

\* Reached: the editor open over a state with a selection and a clipboard,
\* a directory under the cursor and the file list in focus, so that every
\* key of the closed table would do something were it dispatched.
C20_Witness ==
    /\ alive /\ ~quit /\ steps < MaxSteps
    /\ Editing
    /\ selected # {} /\ clipboard.tag = "Some"
    /\ HasEntry /\ EntryAtCursor.is_dir
    /\ active_focus = "FileList"

\* The names of ListNames in ascending order of their bytes, which is
\* what "case-sensitive" means: every capital before every small letter.
AscendingNames == <<"A", "B", "Z", "b.txt", "c">>

NameRank(x) == CHOOSE i \in 1..Len(AscendingNames) : AscendingNames[i] = x

\* C21: the listing of a directory holds exactly its children, every
\* directory before every file, and among the directories and among the
\* files the names in ascending case-sensitive order.
C21_ListingOrder ==
    (input.tag = "Dir" /\ steps > 0)
    => /\ {entries[i].name : i \in 1..Len(entries)}
              = {x \in ListNames : input.kinds[x] # "none"}
       /\ Len(entries) = Cardinality({x \in ListNames : input.kinds[x] # "none"})
       /\ \A i \in 1..Len(entries) :
             entries[i].is_dir = (input.kinds[entries[i].name] = "dir")
       /\ \A i, j \in 1..Len(entries) :
             i < j
             => /\ entries[j].is_dir => entries[i].is_dir
                /\ entries[i].is_dir = entries[j].is_dir
                   => NameRank(entries[i].name) < NameRank(entries[j].name)

\* Reached: the listing of a directory that holds the directory A and the
\* files Z and b.txt next to the directory c.
C21_Witness ==
    /\ input.tag = "Dir" /\ steps > 0
    /\ input.kinds["A"] = "dir" /\ input.kinds["c"] = "dir"
    /\ input.kinds["Z"] = "file" /\ input.kinds["b.txt"] = "file"
    /\ Len(entries) >= 4

\* C22: a listing fails only when its directory cannot be opened, and then
\* with an error value; an entry whose metadata cannot be read is left out
\* and the others are returned; the program is never aborted by a listing.
C22_MetadataFailureIsSkipped ==
    /\ alive
    /\ \A d \in Paths :
          /\ ReadEntries(fs, d).res # "panic"
          /\ ReadEntries(fs, d).res = "err" <=> ~CanOpenDir(fs, d)

\* The path of input is a regular file of no bytes whose name has no image
\* extension, and the loader has answered.
EmptyFileLoaded ==
    /\ input.tag = "Path" /\ steps > 0
    /\ input.stat = "file" /\ input.bytes = <<>>
    /\ ToLowercase(Extension(NameBytes[input.name])) \notin ImageExtensions

\* C23: the loader answers Binary with size 0 for a zero-length regular
\* file that has no image signature and no image extension.
C23_EmptyFileIsBinary ==
    EmptyFileLoaded
    => /\ preview.tag = "Ready"
       /\ preview.content.type = "Binary"
       /\ preview.content.size = 0

\* C23 as it holds: for such a file the loader answers Text with empty
\* content when the file can be read, and Binary with size 0 when it cannot.
C23_EmptyFileIsEmptyText ==
    EmptyFileLoaded
    => /\ preview.tag = "Ready"
       /\ IF input.readable
          THEN /\ preview.content.type = "Text"
               /\ preview.content.content = <<>>
          ELSE /\ preview.content.type = "Binary"
               /\ preview.content.size = 0

\* Reached: the answer for an empty file that can be read.
C23_Witness == EmptyFileLoaded /\ input.readable

\* The loader has answered for the path of input.
Loaded == input.tag = "Path" /\ steps > 0

\* The names of LoadNames whose extension is a known image type.
ImageNamed == input.name \in {"a.png", "c.JPG"}

\* The file of input can be read and its bytes are the 2 x 3 image.
ImageRead == input.readable /\ input.bytes = PngSignature \o <<2, 3>>

\* The file of input can be read and its bytes are text.
TextRead == input.readable /\ input.bytes \in {DataBytes.text, <<>>}

\* C24: for a path that exists the answer is that of the first rule that
\* applies: a directory is Text; bytes that decode as an image are an Image
\* with their width and height; a known image extension is an Image of 0 by
\* 0; valid text is Text holding all of it; anything else is Binary with
\* the byte length.  A file with an image extension whose bytes are no image
\* is never Text or Binary.
C24_FirstRuleDecides ==
    /\ (Loaded /\ input.stat # "none")
       => /\ preview.tag = "Ready"
          /\ IF input.stat = "dir"
             THEN preview.content.type = "Text"
             ELSE IF ImageRead
             THEN /\ preview.content.type = "Image"
                  /\ preview.content.width = 2
                  /\ preview.content.height = 3
             ELSE IF ImageNamed
             THEN /\ preview.content.type = "Image"
                  /\ preview.content.width = 0
                  /\ preview.content.height = 0
             ELSE IF TextRead
             THEN /\ preview.content.type = "Text"
                  /\ preview.content.content = input.bytes
             ELSE /\ preview.content.type = "Binary"
                  /\ preview.content.size = Len(input.bytes)
    /\ (Loaded /\ ImageNamed /\ input.stat # "dir" /\ ~ImageRead)
       => /\ preview.tag = "Ready"
          /\ preview.content.type = "Image"

\* Reached: the answer for a readable file named a.png that holds text.
C24_Witness ==
    /\ Loaded /\ input.name = "a.png" /\ input.stat = "file"
    /\ input.readable /\ input.bytes = DataBytes.text

\* C25: a preview request for a path whose content cannot be read (nothing
\* is there, or the process has no read permission on it) ends with the
\* preview in Failed, never in Ready.
C25_UnreadableContentFails ==
    [][ ( /\ KeyP /\ ~PopupOpen /\ HasEntry
          /\ \/ ~StatOk(fs, EntryAtCursor.path)
             \/ ~HasBit(Node(fs, EntryAtCursor.path).mode, S_IRUSR) )
        => preview'.tag = "Error" ]_vars

\* C26: the preview scroll offset is never negative.  With the focus on
\* the preview, ScrollPreviewUp takes 1 off and ScrollPreviewPageUp 10,
\* both stopping at 0, ScrollPreviewDown adds 1 and ScrollPreviewPageDown
\* adds 10 whatever the preview holds; with the focus on the file list the
\* four actions leave the offset as it is.
C26_ScrollSaturatesAtZero ==
    [][ /\ preview_scroll >= 0 /\ preview_scroll' >= 0
        /\ (ScrollPreviewUp /\ active_focus = "Preview")
           => preview_scroll' = IF preview_scroll = 0 THEN 0
                                ELSE preview_scroll - 1
        /\ (ScrollPreviewPageUp /\ active_focus = "Preview")
           => preview_scroll' = IF preview_scroll < 10 THEN 0
                                ELSE preview_scroll - 10
        /\ (ScrollPreviewDown /\ active_focus = "Preview")
           => preview_scroll' = preview_scroll + 1
        /\ (ScrollPreviewPageDown /\ active_focus = "Preview")
           => preview_scroll' = preview_scroll + 10
        /\ ((\/ ScrollPreviewUp \/ ScrollPreviewDown
             \/ ScrollPreviewPageUp \/ ScrollPreviewPageDown)
            /\ active_focus = "FileList")
           => preview_scroll' = preview_scroll ]_vars

\* Reached: the focus on the preview, nothing previewed, and the offset
\* 1..9, from where a page up stops at 0.
C26_Witness ==
    /\ alive /\ steps < MaxSteps
    /\ active_focus = "Preview"
    /\ preview = PreviewNone
    /\ preview_scroll \in 1..9

\* C27: wherever the event loop waits for the next key, the preview is
\* Empty, Ready or Failed, never Loading: every preview request is answered
\* within the key event that made it, and resets the scroll offset.
C27_NeverLoadingBetweenKeys == preview.tag \in {"None", "Ready", "Error"}

\* Reached: the loop waits with an answered preview on the screen.
C27_Witness ==
    /\ alive /\ ~quit
    /\ preview.tag = "Ready"
    /\ preview_scroll = 0

\* C28: every Paste runs to completion, whatever the clipboard and the
\* current directory, a clipboard path that is the current directory or
\* above it included; the calls of copy_recursive never nest deeper than
\* the longest path the filesystem accepts, plus one.
C28_PasteTerminates ==
    /\ <>(paste.phase = "done")
    /\ [](Len(paste.stack) <= MaxDepth + 1)

\* Reached: a directory is being pasted into itself or below itself, and
\* the copy has arrived at a destination longer than any path can be.
C28_Witness ==
    /\ Copying
    /\ Len(paste.stack) >= 2
    /\ IsPrefix(paste.stack[1].src, cwd)
    /\ Top.dst \notin Paths

\* The filesystem a Paste followed call by call ends with is one of those
\* PasteLoop gives for it.
PasteCallsAgreeWithPasteLoop ==
    paste.phase = "done"
    => fs \in {o.fs : o \in PasteLoop(InitFs, cwd, clipboard.paths)}

\* C29: after every action the current directory exists, and entries lists
\* exactly its children on disk, in the order of the listing.
C29_EntriesMirrorDisk ==
    alive
    => /\ Node(fs, cwd).kind = "dir"
       /\ \A i \in 1..Len(entries) : Node(fs, entries[i].path).kind # "none"
       /\ LET listing == SortEntries({FsEntry(fs, cwd, x) :
                                         x \in ChildNames(fs, cwd)})
          IN  /\ Len(entries) = Len(listing)
              /\ \A i \in 1..Len(entries) : entries[i].path = listing[i].path

\* C30: what Yank followed by Paste leaves on the filesystem does not
\* depend on the order in which Yank takes the paths out of SelectionSet:
\* any two lists Yank can put in the clipboard give the same outcomes.
C30_YankPasteIsDeterministic ==
    alive
    => \A y1, y2 \in Yanked(selected, clipboard) :
          (y1.clipboard.tag = "Some" /\ y2.clipboard.tag = "Some")
          => {o.fs : o \in PasteLoop(fs, cwd, y1.clipboard.paths)}
                = {o.fs : o \in PasteLoop(fs, cwd, y2.clipboard.paths)}

====
